---- MODULE Spec2Model ----
(***************************************************************************)
(* Model of the lookup scheduler of DNS-CPP: Core (src/src/core.cpp), the  *)
(* Queue (src/src/queue.cpp), RemoteLookup (src/src/remotelookup.cpp) and  *)
(* LocalLookup (src/src/locallookup.h).                                    *)
(*                                                                         *)
(* The program is single threaded.  Every entry point (add, cancel, a      *)
(* readable socket, a TCP event, the timer) is one action, except expire() *)
(* whose loops call user code and need not terminate: expire() is split at *)
(* its loop iterations, with pc naming the step it is in.  User handlers   *)
(* run inside the callbacks and may cancel or add lookups there (Reaction).*)
(*                                                                         *)
(* Operators that model a method take the state as a record S and return   *)
(* the state after the call; Cur packs the variables and Commit unpacks.   *)
(***************************************************************************)
EXTENDS Integers, Sequences, FiniteSets, TLC

\* ------------------------------------------------------------- bounds
NLookups == 2        \* lookups the user creates in one run (one more in SpecBusy)
NNameservers == 2    \* nameservers in the settings
MaxTime == 2         \* the clock runs from 0 to MaxTime
MaxBuffered == 2     \* responses buffered in the two udp sockets together
MaxAttempts == 2     \* the attempts setting is drawn from 1..MaxAttempts
MaxCapacity == 2     \* the capacity setting is drawn from 1..MaxCapacity
MaxFlood == 9        \* responses buffered in the two udp sockets together in SpecFlood

\* ------------------------------------------------------------- constants
Timeout == 1         \* the timeout setting, in clock units
MaxCalls == 8        \* size_t maxcalls = 8 in Core::expire
NoTimer == 0         \* _timer == nullptr

Lookups == 1..(NLookups + 1)
Nameservers == 0..(NNameservers - 1)

\* the ip version of nameserver n: the settings list v4 and v6 servers in turn
Version(n) == IF n % 2 = 0 THEN 4 ELSE 6

VARIABLES
    capacity,       \* Core::_capacity
    attempts,       \* Core::_attempts
    rotate,         \* Core::_rotate
    quota,          \* how many lookups the user creates in this run
    build,          \* what the build does on the undefined list erase:
                    \* "unknown" until it first happens
    now,            \* the clock
    pc,             \* step of Core::expire, "idle" between event-loop callbacks
    maxcalls,       \* the local maxcalls of Core::expire
    crashed,        \* the process was terminated
    valid,          \* the Core has not been destructed (Watcher::valid)
    asserted,       \* the assert() of the last expire() has failed
    life,           \* per lookup: "new" (not yet created), "live", "gone" (destructed)
    kind,           \* per lookup: "remote" or "local"
    id,             \* RemoteLookup::_id
    handler,        \* Operation::_handler != nullptr
    count,          \* RemoteLookup::_count
    last,           \* RemoteLookup::_last, LocalLookup::_timestamp
    isready,        \* LocalLookup::_ready
    connection,     \* RemoteLookup::_connection != nullptr
    subscriptions,  \* RemoteLookup::_subscriptions, as the set of nameservers
    scheduled,      \* Core::_scheduled, front first
    lookups,        \* Core::_lookups (the in-flight queue), front first
    ready,          \* Core::_ready, front first
    szLookups,      \* what _lookups.size() returns; negative n stands for 2^64 + n
    szReady,        \* what _ready.size() returns
    ipv4,           \* responses buffered in Core::_ipv4
    ipv6,           \* responses buffered in Core::_ipv6
    registered,     \* the <<lookup, nameserver>> pairs subscribed with the
                    \* udp sockets (with _ipv4 or _ipv6 by Version)
    armed,          \* timers armed with the event loop, as <<id, due>>
    timer,          \* Core::_timer
    cb,             \* per lookup: how often each handler method was called
    payload,        \* per lookup: what the last onReceived carried
    sent,           \* per lookup: the nameserver of each execute(), in order
    hist            \* per lookup: cancel() was called on it while it had a
                    \* handler, before ("early") or after ("late") its first execute()

cfgvars == <<capacity, attempts, rotate, quota>>
ctlvars == <<build, now, pc, maxcalls, crashed, valid, asserted>>
lkpvars == <<life, kind, id, handler, count, last, isready, connection, subscriptions>>
quevars == <<scheduled, lookups, ready, szLookups, szReady>>
netvars == <<ipv4, ipv6, registered, armed, timer>>
obsvars == <<cb, payload, sent, hist>>
vars == <<cfgvars, ctlvars, lkpvars, quevars, netvars, obsvars>>

NoCalls == [onReceived |-> 0, onTimeout |-> 0, onCancelled |-> 0, onFailure |-> 0]
NoHist == [cancel |-> "no"]

\* the part of the state the methods below read and write
Cur ==
    [build |-> build, crashed |-> crashed, valid |-> valid, asserted |-> asserted,
     life |-> life, kind |-> kind, id |-> id, handler |-> handler,
     count |-> count, last |-> last, isready |-> isready,
     connection |-> connection, subscriptions |-> subscriptions,
     scheduled |-> scheduled, lookups |-> lookups, ready |-> ready,
     szLookups |-> szLookups, szReady |-> szReady,
     ipv4 |-> ipv4, ipv6 |-> ipv6, registered |-> registered,
     armed |-> armed, timer |-> timer,
     cb |-> cb, payload |-> payload, sent |-> sent, hist |-> hist]

Commit(S) ==
    /\ build' = S.build /\ crashed' = S.crashed /\ valid' = S.valid
    /\ asserted' = S.asserted
    /\ life' = S.life /\ kind' = S.kind /\ id' = S.id /\ handler' = S.handler
    /\ count' = S.count /\ last' = S.last /\ isready' = S.isready
    /\ connection' = S.connection /\ subscriptions' = S.subscriptions
    /\ scheduled' = S.scheduled /\ lookups' = S.lookups /\ ready' = S.ready
    /\ szLookups' = S.szLookups /\ szReady' = S.szReady
    /\ ipv4' = S.ipv4 /\ ipv6' = S.ipv6 /\ registered' = S.registered
    /\ armed' = S.armed /\ timer' = S.timer
    /\ cb' = S.cb /\ payload' = S.payload /\ sent' = S.sent /\ hist' = S.hist

Crash(S) == [S EXCEPT !.crashed = TRUE]

\* ------------------------------------------------------------- Queue
InQueue(q, l) == \E i \in 1..Len(q) : q[i] = l

Unlink(q, l) == SelectSeq(q, LAMBDA x : x # l)

\* the list Lookup::_position points into; "none" when it dangles
Position(S, l) ==
    IF InQueue(S.scheduled, l) THEN "scheduled"
    ELSE IF InQueue(S.lookups, l) THEN "lookups"
    ELSE IF InQueue(S.ready, l) THEN "ready"
    ELSE "none"

\* ------------------------------------------------------------- event loop
FreeTimer(S) == CHOOSE n \in 1..(Cardinality(S.armed) + 1) : \A t \in S.armed : t[1] # n

Loop_cancel(S, t) == [S EXCEPT !.armed = {a \in @ : a[1] # t}]

\* _timer = _loop->timer(delay, this)
Loop_timer(S, delay) ==
    [S EXCEPT !.armed = @ \cup {<<FreeTimer(S), now + delay>>}, !.timer = FreeTimer(S)]

\* ------------------------------------------------------------- Core
Core_onBuffered(S) ==
    Loop_timer(IF S.timer # NoTimer THEN Loop_cancel(S, S.timer) ELSE S, 0)

\* a reschedule that does not ask for the timer
Core_reschedule_noTimer(S, l) == [S EXCEPT !.scheduled = Append(@, l)]

Core_reschedule(S, l) ==
    Core_onBuffered([S EXCEPT !.scheduled = Append(@, l)])

Core_add(S, l) == Core_reschedule(S, l)

\* _lookups.size() < _capacity, on a size_t that may have wrapped below zero
SizeBelow(sz, cap) == sz >= 0 /\ sz < cap

\* the outcomes of _lookups.pop(lookup) for a lookup whose position is in
\* another list (undefined behaviour of std::list::erase):
\*   "counted": the node is unhooked from the list it is in and the size
\*              counter of _lookups is decremented (a list that stores its size)
\*   "linked":  the node is unhooked and every size() is the number of linked
\*              nodes (a list that counts its nodes)
\*   "checked": the erase is detected and the process is terminated
Outcomes == IF build = "unknown" THEN {"counted", "linked", "checked"} ELSE {build}

\* Queue::pop(item) on _lookups for an item of another list, then _ready.push
ForeignPop(S, l, ub) ==
    LET p == Position(S, l) IN
    IF p = "none" \/ ub = "checked" THEN Crash(S)
    ELSE [S EXCEPT !.build = ub,
                   !.scheduled = Unlink(@, l),
                   !.ready = Append(Unlink(@, l), l),
                   !.szLookups = IF ub = "counted" THEN @ - 1 ELSE @,
                   !.szReady = IF ub = "linked" /\ p = "ready" THEN @ ELSE @ + 1]

\* a done that pushes onto _ready without the pop from _lookups
Core_done_noPop(S, l, ub) == [S EXCEPT !.ready = Append(@, l), !.szReady = @ + 1]

Core_done(S, l, ub) ==
    IF Position(S, l) = "lookups"
    THEN [S EXCEPT !.lookups = Unlink(@, l), !.szLookups = @ - 1,
                   !.ready = Append(@, l), !.szReady = @ + 1]
    ELSE ForeignPop(S, l, ub)

\* ------------------------------------------------------------- user handler
\* what the user's handler does inside a callback: nothing, cancel a lookup
\* it still holds, or start a new lookup
Reactions ==
    {<<"none">>}
        \cup {<<"cancel", m>> : m \in {x \in Lookups : life[x] = "live"}}
        \cup {<<"add", "remote", 0>>, <<"add", "local", 0>>}

NewLookup(S, l, k, i) ==
    Core_add([S EXCEPT !.life[l] = "live", !.kind[l] = k, !.id[l] = i,
                       !.handler[l] = TRUE], l)

NextNew(S) ==
    CHOOSE l \in Lookups : S.life[l] = "new" /\ \A m \in Lookups : m < l => S.life[m] # "new"

Created(S) == Cardinality({l \in Lookups : S.life[l] # "new"})

RECURSIVE React(_, _, _)

\* handler->m(this, ...): the call is counted, then the user's code runs
Call(S, l, m, p, r, ub) ==
    IF S.crashed THEN S
    ELSE React([S EXCEPT !.cb[l][m] = @ + 1,
                         !.payload[l] = IF m = "onReceived" THEN p ELSE @], r, ub)

\* ------------------------------------------------------------- RemoteLookup
RemoteLookup_credits(S, l) == attempts - S.count[l]

\* Udps::subscribe and Udps::unsubscribe of the transport of nameserver n
Udps_subscribe(S, l, n) == [S EXCEPT !.registered = @ \cup {<<l, n>>}]
Udps_unsubscribe(S, l, n) == [S EXCEPT !.registered = @ \ {<<l, n>>}]

\* an unsubscribe that only clears _subscriptions
RemoteLookup_unsubscribe_clearOnly(S, l) == [S EXCEPT !.subscriptions[l] = {}]

\* unsubscribe(): the loop over _subscriptions, then _subscriptions.clear()
RECURSIVE UnsubscribeAll(_, _, _)
UnsubscribeAll(S, l, subs) ==
    IF subs = {} THEN S
    ELSE LET n == CHOOSE x \in subs : TRUE
         IN  UnsubscribeAll(Udps_unsubscribe(S, l, n), l, subs \ {n})

RemoteLookup_unsubscribe(S, l) ==
    [UnsubscribeAll(S, l, S.subscriptions[l]) EXCEPT !.subscriptions[l] = {}]

\* a cleanup that leaves the handler set
RemoteLookup_cleanup_keepsHandler(S, l, ub) ==
    LET T == RemoteLookup_unsubscribe([S EXCEPT !.connection[l] = FALSE], l)
    IN  IF S.handler[l] THEN Core_done(T, l, ub) ELSE T

RemoteLookup_cleanup(S, l, ub) ==
    LET T == RemoteLookup_unsubscribe([S EXCEPT !.handler[l] = FALSE,
                                                !.connection[l] = FALSE], l)
    IN  IF S.handler[l] THEN Core_done(T, l, ub) ELSE T

\* the nameserver RemoteLookup::execute sends to
Target(S, l) ==
    IF rotate THEN (S.count[l] + S.id[l]) % NNameservers ELSE S.count[l] % NNameservers

\* ok: Core::datagram returned an inbound handle
RemoteLookup_execute(S, l, ok) ==
    LET T == IF ok THEN [Udps_subscribe(S, l, Target(S, l)) EXCEPT
                            !.subscriptions[l] = @ \cup {Target(S, l)}]
             ELSE S
    IN  [T EXCEPT !.sent[l] = Append(@, Target(S, l)),
                  !.count[l] = @ + 1,
                  !.last[l] = now]

\* every branch of report() ends in cleanup()->onReceived; the rewritten
\* NXDOMAIN response differs in its payload only
RemoteLookup_report(S, l, p, r, ub) ==
    IF ~S.handler[l] THEN S
    ELSE Call(RemoteLookup_cleanup(S, l, ub), l, "onReceived", p, r, ub)

\* an onReceived that does not look at the tcp connection first
RemoteLookup_onReceived_noTcpCheck(S, l, tc, r, ub) ==
    IF ~tc THEN RemoteLookup_report(S, l, "udp", r, ub)
    ELSE [RemoteLookup_unsubscribe([S EXCEPT !.connection[l] = TRUE], l) EXCEPT
             !.last[l] = now]

\* onReceived(ip, response) for a response that matches the query
RemoteLookup_onReceived(S, l, tc, r, ub) ==
    IF S.connection[l] THEN S
    ELSE IF ~tc THEN RemoteLookup_report(S, l, "udp", r, ub)
    ELSE [RemoteLookup_unsubscribe([S EXCEPT !.connection[l] = TRUE], l) EXCEPT
             !.last[l] = now]

\* onReceived(connection, response)
RemoteLookup_onReceivedTcp(S, l, r, ub) ==
    IF ~S.handler[l] THEN S ELSE RemoteLookup_report(S, l, "tcp", r, ub)

RemoteLookup_onFailure(S, l, r, ub) ==
    IF ~S.handler[l] THEN S
    ELSE Call(RemoteLookup_cleanup(S, l, ub), l, "onReceived", "truncated", r, ub)

\* a cancel that does not look at the handler first
RemoteLookup_cancel_unchecked(S, l, r, ub) ==
    Call(RemoteLookup_cleanup(S, l, ub), l, "onCancelled", "none", r, ub)

RemoteLookup_cancel(S, l, r, ub) ==
    IF ~S.handler[l] THEN S
    ELSE Call(RemoteLookup_cleanup(S, l, ub), l, "onCancelled", "none", r, ub)

\* the memory of a destructed lookup is released: its fields and what was
\* observed of it are no longer part of the state
Forget(S, l) ==
    [S EXCEPT !.kind[l] = "remote", !.id[l] = 0, !.count[l] = 0, !.last[l] = 0,
              !.isready[l] = FALSE, !.cb[l] = NoCalls, !.payload[l] = "none",
              !.sent[l] = <<>>, !.hist[l] = NoHist]

\* ~RemoteLookup: cleanup() with a handler left calls shared_from_this() on
\* an object no shared_ptr owns any more: bad_weak_ptr leaves the destructor
RemoteLookup_destruct(S, l) ==
    LET T == RemoteLookup_unsubscribe([S EXCEPT !.handler[l] = FALSE,
                                                !.connection[l] = FALSE,
                                                !.life[l] = "gone"], l)
    IN  IF S.handler[l] THEN Crash(T) ELSE Forget(T, l)

\* ------------------------------------------------------------- LocalLookup
LocalLookup_credits(S, l) == 1

\* Hosts::notify(request, handler, operation) delivers the response to the
\* handler; nullok: a null handler is tolerated
Hosts_notify(S, l, r, ub, nullok) ==
    IF S.handler[l] THEN Call(S, l, "onReceived", "local", r, ub)
    ELSE IF nullok THEN S ELSE Crash(S)

LocalLookup_execute(S, l, r, ub, nullok) ==
    IF S.isready[l] THEN S
    ELSE LET T == Hosts_notify([S EXCEPT !.last[l] = now], l, r, ub, nullok)
         IN  IF T.crashed THEN T ELSE [T EXCEPT !.isready[l] = TRUE]

LocalLookup_cancel(S, l, r, ub) ==
    IF ~S.handler[l] THEN S
    ELSE Call([S EXCEPT !.handler[l] = FALSE], l, "onCancelled", "none", r, ub)

\* ~LocalLookup: a lookup that was not executed tells the handler, which it
\* does not test
LocalLookup_destruct(S, l) ==
    LET T == [S EXCEPT !.handler[l] = FALSE, !.life[l] = "gone"] IN
    IF S.isready[l] THEN Forget(T, l)
    ELSE IF ~S.handler[l] THEN Crash(T)
    ELSE Forget(Call(T, l, "onCancelled", "none", <<"none">>, "checked"), l)

\* the last shared_ptr to l is dropped
Lookup_destruct(S, l) ==
    IF S.kind[l] = "remote" THEN RemoteLookup_destruct(S, l) ELSE LocalLookup_destruct(S, l)

RECURSIVE DestructAll(_, _)
DestructAll(S, q) ==
    IF q = <<>> \/ S.crashed THEN S ELSE DestructAll(Lookup_destruct(S, Head(q)), Tail(q))

\* ~Core: the timer is stopped, then the members are destructed: the queues
\* drop their lookups and the sockets their buffers
Core_destruct(S) ==
    LET T == IF S.timer # NoTimer THEN Loop_cancel(S, S.timer) ELSE S
        U == DestructAll(T, T.scheduled \o T.lookups \o T.ready)
    IN  [U EXCEPT !.valid = FALSE, !.timer = NoTimer,
                  !.scheduled = <<>>, !.lookups = <<>>, !.ready = <<>>,
                  !.szLookups = 0, !.szReady = 0, !.ipv4 = <<>>, !.ipv6 = <<>>,
                  !.registered = {}]

\* ------------------------------------------------------------- Operation
\* execute() has been called on l (a LocalLookup reports from inside it)
Executed(S, l) == S.count[l] > 0 \/ S.isready[l] \/ S.cb[l].onReceived > 0

\* the user calls cancel() on the Operation that add() returned
Operation_cancel(S, l, r, ub) ==
    LET T == [S EXCEPT !.hist[l].cancel =
                  IF @ # "no" \/ ~S.handler[l] THEN @
                  ELSE IF Executed(S, l) THEN "late" ELSE "early"]
    IN  IF S.kind[l] = "remote" THEN RemoteLookup_cancel(T, l, r, ub)
        ELSE LocalLookup_cancel(T, l, r, ub)

React(S, r, ub) ==
    IF S.crashed \/ r[1] = "none" THEN S
    ELSE IF r[1] = "cancel" THEN Operation_cancel(S, r[2], <<"none">>, ub)
    ELSE IF r[1] = "destroy" THEN Core_destruct(S)
    ELSE IF Created(S) < quota THEN NewLookup(S, NextNew(S), r[2], r[3])
    ELSE S

\* ------------------------------------------------------------- Udps
\* deliver() hands one buffered response to the lookup subscribed to its
\* (nameserver, query id); a subscriber that was destructed is a dangling
\* pointer
Udps_deliver(S, resp, r, ub) ==
    IF <<resp.l, resp.ns>> \notin S.registered THEN S
    ELSE IF S.life[resp.l] # "live" THEN Crash(S)
    ELSE RemoteLookup_onReceived(S, resp.l, resp.tc, r, ub)

\* ------------------------------------------------------------- Core::expire
\* step 2: _ready.pop() end times; the popped shared_ptr is the last owner
RECURSIVE PopReady(_, _)
PopReady(S, n) ==
    IF n = 0 \/ S.crashed THEN S
    ELSE IF S.ready = <<>> THEN Crash(S)
    ELSE PopReady(Lookup_destruct([S EXCEPT !.ready = Tail(@), !.szReady = @ - 1],
                                  Head(S.ready)), n - 1)

Min(a, b) == IF a < b THEN a ELSE b
Max(a, b) == IF a > b THEN a ELSE b

Credits(S, l) ==
    IF S.kind[l] = "remote" THEN RemoteLookup_credits(S, l) ELSE LocalLookup_credits(S, l)

\* a step 4 that reschedules every timed-out lookup
Retry_always(S, l) == TRUE

\* step 4: a timed-out lookup with credits goes back to _scheduled
Retry(S, l) == Credits(S, l) > 0

\* step 4: pop off the timed-out lookups
RECURSIVE TimeoutStep(_)
TimeoutStep(S) ==
    IF S.lookups = <<>> \/ S.last[Head(S.lookups)] > now - Timeout THEN S
    ELSE LET l == Head(S.lookups)
             T == [S EXCEPT !.lookups = Tail(@), !.szLookups = @ - 1]
         IN  TimeoutStep(IF Retry(S, l)
                         THEN [T EXCEPT !.scheduled = Append(@, l)]
                         ELSE [T EXCEPT !.ready = Append(@, l), !.szReady = @ + 1])

\* step 5 without its first case
TimerStep_noReady(S, ndebug) ==
    IF S.lookups # <<>>
    THEN Loop_timer(S, Max(0, S.last[Head(S.lookups)] + Timeout - now))
    ELSE IF S.scheduled = <<>> THEN S
    ELSE [S EXCEPT !.asserted = TRUE, !.crashed = ~ndebug]

\* step 5: schedule the timer; ndebug: assert() is compiled out
TimerStep(S, ndebug) ==
    IF S.ready # <<>> THEN Loop_timer(S, 0)
    ELSE IF S.lookups # <<>>
    THEN Loop_timer(S, Max(0, S.last[Head(S.lookups)] + Timeout - now))
    ELSE IF S.scheduled = <<>> THEN S
    ELSE [S EXCEPT !.asserted = TRUE, !.crashed = ~ndebug]

\* the timer t fires: the loop calls Core::expire, which forgets _timer
Expire(t) ==
    /\ pc = "idle" /\ ~crashed
    /\ t \in armed /\ t[2] <= now
    /\ Commit([Loop_cancel([Cur EXCEPT !.armed = @ \ {t}], timer) EXCEPT
                  !.timer = NoTimer, !.asserted = FALSE])
    /\ pc' = "deliver" /\ maxcalls' = MaxCalls
    /\ UNCHANGED <<cfgvars, now>>

\* step 1: _ipv4.deliver(maxcalls), one buffered response; expire() returns
\* ("dead") when the watcher is no longer valid after it
DeliverIpv4(r, ub) ==
    /\ pc = "deliver" /\ ~crashed
    /\ ipv4 # <<>> /\ maxcalls > 0
    /\ Commit(Udps_deliver([Cur EXCEPT !.ipv4 = Tail(@)], Head(ipv4), r, ub))
    /\ maxcalls' = maxcalls - 1
    /\ pc' = IF valid' THEN pc ELSE "dead"
    /\ UNCHANGED <<cfgvars, now>>

\* step 1: _ipv6.deliver(maxcalls), one buffered response, once _ipv4.deliver
\* has returned
DeliverIpv6(r, ub) ==
    /\ pc = "deliver" /\ ~crashed
    /\ ipv4 = <<>> /\ ipv6 # <<>> /\ maxcalls > 0
    /\ Commit(Udps_deliver([Cur EXCEPT !.ipv6 = Tail(@)], Head(ipv6), r, ub))
    /\ maxcalls' = maxcalls - 1
    /\ pc' = IF valid' THEN pc ELSE "dead"
    /\ UNCHANGED <<cfgvars, now>>

\* a step 2 that looks at _ready.size() only
Release_unbounded ==
    /\ pc = "deliver" /\ ~crashed
    /\ maxcalls = 0 \/ (ipv4 = <<>> /\ ipv6 = <<>>)
    /\ Commit(PopReady(Cur, szReady))
    /\ pc' = "start"
    /\ UNCHANGED <<cfgvars, now, maxcalls>>

\* both deliver() calls have returned: step 2
Release ==
    /\ pc = "deliver" /\ ~crashed
    /\ maxcalls = 0 \/ (ipv4 = <<>> /\ ipv6 = <<>>)
    /\ Commit(PopReady(Cur, Min(maxcalls, szReady)))
    /\ pc' = "start"
    /\ UNCHANGED <<cfgvars, now, maxcalls>>

StartGuard == SizeBelow(szLookups, capacity) /\ scheduled # <<>>

\* one iteration of step 3 for the lookup at the front of _scheduled.  Step
\* 3 does not look at the watcher: after a handler has destructed the Core
\* it goes on with the queues of the freed object, which is where the model
\* of that run ends (valid = FALSE with pc = "start")
Execute(S, l, ok, r, ub, nullok) ==
    LET T == [S EXCEPT !.scheduled = Tail(@)] IN
    IF S.kind[l] = "remote"
    THEN [RemoteLookup_execute(T, l, ok) EXCEPT !.lookups = Append(@, l), !.szLookups = @ + 1]
    ELSE LET U == LocalLookup_execute(T, l, r, ub, nullok) IN
         IF U.crashed \/ ~U.valid THEN U
         ELSE IF Credits(U, l) > 0 THEN [U EXCEPT !.scheduled = Append(@, l)]
         ELSE [U EXCEPT !.ready = Append(@, l), !.szReady = @ + 1]

Start(ok, r, ub, nullok) ==
    /\ pc = "start" /\ ~crashed /\ valid
    /\ StartGuard
    /\ Commit(Execute(Cur, Head(scheduled), ok, r, ub, nullok))
    /\ UNCHANGED <<cfgvars, now, pc, maxcalls>>

\* steps 4 and 5
Finish(ndebug) ==
    /\ pc = "start" /\ ~crashed /\ valid
    /\ ~StartGuard
    /\ Commit(TimerStep(TimeoutStep(Cur), ndebug))
    /\ pc' = "idle"
    /\ UNCHANGED <<cfgvars, now, maxcalls>>

\* ------------------------------------------------------------- event loop callbacks
Ids == IF rotate THEN Nameservers ELSE {0}

\* Context::query creates the lookup and Core::add takes it
Add(k, i) ==
    /\ pc = "idle" /\ ~crashed
    /\ Created(Cur) < quota
    /\ Commit(NewLookup(Cur, NextNew(Cur), k, i))
    /\ UNCHANGED <<cfgvars, now, pc, maxcalls>>

Cancel(l, r, ub) ==
    /\ pc = "idle" /\ ~crashed
    /\ life[l] = "live"
    /\ Commit(Operation_cancel(Cur, l, r, ub))
    /\ UNCHANGED <<cfgvars, now, pc, maxcalls>>

Buffered == Len(ipv4) + Len(ipv6)

\* a udp socket is readable: a response of nameserver n that matches the
\* query of l is buffered and Core::onBuffered is called.  Only responses
\* that a lookup is subscribed to are modelled: deliver() drops the others
UdpArrives(l, n, tc, room) ==
    /\ pc = "idle" /\ ~crashed
    /\ <<l, n>> \in registered
    /\ Buffered < room
    /\ LET resp == [l |-> l, ns |-> n, tc |-> tc]
           S == Cur IN
       Commit(Core_onBuffered(IF Version(n) = 4 THEN [S EXCEPT !.ipv4 = Append(@, resp)]
                              ELSE [S EXCEPT !.ipv6 = Append(@, resp)]))
    /\ UNCHANGED <<cfgvars, now, pc, maxcalls>>

UdpReadable(l, n, tc) == UdpArrives(l, n, tc, MaxBuffered)

\* the TCP connection of l has the response
TcpReceived(l, r, ub) ==
    /\ pc = "idle" /\ ~crashed
    /\ connection[l]
    /\ Commit(RemoteLookup_onReceivedTcp(Cur, l, r, ub))
    /\ UNCHANGED <<cfgvars, now, pc, maxcalls>>

\* the TCP connection of l has failed
TcpFailed(l, r, ub) ==
    /\ pc = "idle" /\ ~crashed
    /\ connection[l]
    /\ Commit(RemoteLookup_onFailure(Cur, l, r, ub))
    /\ UNCHANGED <<cfgvars, now, pc, maxcalls>>

\* the clock advances; a timer that is due fires first
Tick ==
    /\ pc = "idle" /\ ~crashed
    /\ now < MaxTime
    /\ \A t \in armed : t[2] > now
    /\ now' = now + 1
    /\ UNCHANGED <<cfgvars, build, pc, maxcalls, crashed, valid, asserted,
                   lkpvars, quevars, netvars, obsvars>>

Init ==
    /\ capacity \in 1..MaxCapacity
    /\ attempts \in 1..MaxAttempts
    /\ rotate = FALSE
    /\ quota = NLookups
    /\ build = "unknown"
    /\ now = 0 /\ pc = "idle" /\ maxcalls = 0
    /\ crashed = FALSE /\ valid = TRUE /\ asserted = FALSE
    /\ life = [l \in Lookups |-> "new"]
    /\ kind = [l \in Lookups |-> "remote"]
    /\ id = [l \in Lookups |-> 0]
    /\ handler = [l \in Lookups |-> FALSE]
    /\ count = [l \in Lookups |-> 0]
    /\ last = [l \in Lookups |-> 0]
    /\ isready = [l \in Lookups |-> FALSE]
    /\ connection = [l \in Lookups |-> FALSE]
    /\ subscriptions = [l \in Lookups |-> {}]
    /\ scheduled = <<>> /\ lookups = <<>> /\ ready = <<>>
    /\ szLookups = 0 /\ szReady = 0
    /\ ipv4 = <<>> /\ ipv6 = <<>> /\ registered = {}
    /\ armed = {} /\ timer = NoTimer
    /\ cb = [l \in Lookups |-> NoCalls]
    /\ payload = [l \in Lookups |-> "none"]
    /\ sent = [l \in Lookups |-> <<>>]
    /\ hist = [l \in Lookups |-> NoHist]

\* the reactions of the handler of l: a handler that is not set is not called
Reacts(l) == IF handler[l] THEN Reactions ELSE {<<"none">>}

Next ==
    \/ Add("remote", 0)
    \/ Add("local", 0)
    \/ \E l \in Lookups : \E r \in Reacts(l), ub \in Outcomes : Cancel(l, r, ub)
    \/ \E l \in Lookups, n \in Nameservers, tc \in BOOLEAN : UdpReadable(l, n, tc)
    \/ \E l \in Lookups : \E r \in Reacts(l), ub \in Outcomes : TcpReceived(l, r, ub)
    \/ \E l \in Lookups : \E r \in Reacts(l), ub \in Outcomes : TcpFailed(l, r, ub)
    \/ Tick
    \/ \E t \in armed : Expire(t)
    \/ \E r \in Reactions, ub \in Outcomes : DeliverIpv4(r, ub)
    \/ \E r \in Reactions, ub \in Outcomes : DeliverIpv6(r, ub)
    \/ Release
    \/ \E ok \in BOOLEAN, r \in Reactions, ub \in Outcomes, nullok \in BOOLEAN :
           Start(ok, r, ub, nullok)
    \/ \E ndebug \in BOOLEAN : Finish(ndebug)

Spec == Init /\ [][Next]_vars

\* ------------------------------------------------------------- busy resolver
\* one more lookup than in Spec, on a resolver with capacity 1, with or
\* without rotation, whose nameservers never answer and whose user only adds
\* and cancels
InitBusy ==
    /\ capacity = 1
    /\ attempts \in 1..MaxAttempts
    /\ rotate \in BOOLEAN
    /\ quota = NLookups + 1
    /\ build = "unknown"
    /\ now = 0 /\ pc = "idle" /\ maxcalls = 0
    /\ crashed = FALSE /\ valid = TRUE /\ asserted = FALSE
    /\ life = [l \in Lookups |-> "new"]
    /\ kind = [l \in Lookups |-> "remote"]
    /\ id = [l \in Lookups |-> 0]
    /\ handler = [l \in Lookups |-> FALSE]
    /\ count = [l \in Lookups |-> 0]
    /\ last = [l \in Lookups |-> 0]
    /\ isready = [l \in Lookups |-> FALSE]
    /\ connection = [l \in Lookups |-> FALSE]
    /\ subscriptions = [l \in Lookups |-> {}]
    /\ scheduled = <<>> /\ lookups = <<>> /\ ready = <<>>
    /\ szLookups = 0 /\ szReady = 0
    /\ ipv4 = <<>> /\ ipv6 = <<>> /\ registered = {}
    /\ armed = {} /\ timer = NoTimer
    /\ cb = [l \in Lookups |-> NoCalls]
    /\ payload = [l \in Lookups |-> "none"]
    /\ sent = [l \in Lookups |-> <<>>]
    /\ hist = [l \in Lookups |-> NoHist]

NextBusy ==
    \/ \E i \in Ids : Add("remote", i)
    \/ \E l \in Lookups, ub \in Outcomes : Cancel(l, <<"none">>, ub)
    \/ Tick
    \/ \E t \in armed : Expire(t)
    \/ Release
    \/ \E ub \in Outcomes : Start(TRUE, <<"none">>, ub, TRUE)
    \/ \E ndebug \in BOOLEAN : Finish(ndebug)

SpecBusy == InitBusy /\ [][NextBusy]_vars

\* ------------------------------------------------------------- destroying user
\* the resolver of Spec, with a user whose handlers may destruct the Core
\* from inside a callback that expire() makes
ReactionsDestroy == {<<"none">>, <<"destroy">>}

NextDestroy ==
    \/ Add("remote", 0)
    \/ Add("local", 0)
    \/ \E l \in Lookups, n \in Nameservers : UdpReadable(l, n, FALSE)
    \/ Tick
    \/ \E t \in armed : Expire(t)
    \/ \E r \in ReactionsDestroy, ub \in Outcomes : DeliverIpv4(r, ub)
    \/ \E r \in ReactionsDestroy, ub \in Outcomes : DeliverIpv6(r, ub)
    \/ Release
    \/ \E r \in ReactionsDestroy, ub \in Outcomes : Start(TRUE, r, ub, TRUE)
    \/ \E ndebug \in BOOLEAN : Finish(ndebug)

SpecDestroy == Init /\ [][NextDestroy]_vars

\* ------------------------------------------------------------- flooded resolver
\* two lookups on a rotating resolver, one sent to the v4 and one to the v6
\* nameserver, and nameservers that answer each query many times over, so
\* that more responses are buffered than one call of expire() may deliver
InitFlood ==
    /\ capacity = 2
    /\ attempts = 1
    /\ rotate = TRUE
    /\ quota = 2
    /\ build = "unknown"
    /\ now = 0 /\ pc = "idle" /\ maxcalls = 0
    /\ crashed = FALSE /\ valid = TRUE /\ asserted = FALSE
    /\ life = [l \in Lookups |-> "new"]
    /\ kind = [l \in Lookups |-> "remote"]
    /\ id = [l \in Lookups |-> 0]
    /\ handler = [l \in Lookups |-> FALSE]
    /\ count = [l \in Lookups |-> 0]
    /\ last = [l \in Lookups |-> 0]
    /\ isready = [l \in Lookups |-> FALSE]
    /\ connection = [l \in Lookups |-> FALSE]
    /\ subscriptions = [l \in Lookups |-> {}]
    /\ scheduled = <<>> /\ lookups = <<>> /\ ready = <<>>
    /\ szLookups = 0 /\ szReady = 0
    /\ ipv4 = <<>> /\ ipv6 = <<>> /\ registered = {}
    /\ armed = {} /\ timer = NoTimer
    /\ cb = [l \in Lookups |-> NoCalls]
    /\ payload = [l \in Lookups |-> "none"]
    /\ sent = [l \in Lookups |-> <<>>]
    /\ hist = [l \in Lookups |-> NoHist]

NextFlood ==
    \/ \E i \in Ids : Add("remote", i)
    \/ \E l \in Lookups, n \in Nameservers : UdpArrives(l, n, FALSE, MaxFlood)
    \/ Tick
    \/ \E t \in armed : Expire(t)
    \/ \E ub \in Outcomes : DeliverIpv4(<<"none">>, ub)
    \/ \E ub \in Outcomes : DeliverIpv6(<<"none">>, ub)
    \/ Release
    \/ \E ub \in Outcomes : Start(TRUE, <<"none">>, ub, TRUE)
    \/ \E ndebug \in BOOLEAN : Finish(ndebug)

SpecFlood == InitFlood /\ [][NextFlood]_vars

\* ------------------------------------------------------------- properties
Calls(l) == cb[l].onReceived + cb[l].onTimeout + cb[l].onCancelled + cb[l].onFailure

\* the responses buffered for lookup l
BufferedFor(l) == {i \in 1..Len(ipv4 \o ipv6) : (ipv4 \o ipv6)[i].l = l}

\* C1: a RemoteLookup that is never answered and never cancelled has had
\* exactly one onTimeout, after attempts sends, when the scheduler lets go of
\* it (in SpecBusy no nameserver ever answers)
C1_ExactlyOneTimeout ==
    [][\A l \in Lookups :
          (life[l] = "live" /\ life'[l] = "gone" /\ kind[l] = "remote"
              /\ hist[l].cancel = "no")
          => (cb[l].onTimeout = 1 /\ Len(sent[l]) = attempts)]_vars

\* C2: a RemoteLookup that timed out in flight with credits left is executed
\* again: when expire() has returned and the lookup waits in _scheduled, a
\* timer is armed that will run expire() again
C2_RetryPending ==
    \A l \in Lookups :
        (pc = "idle" /\ ~crashed /\ InQueue(scheduled, l) /\ kind[l] = "remote"
            /\ handler[l] /\ count[l] > 0 /\ count[l] < attempts)
        => armed # {}

\* C3: a RemoteLookup gets at most one handler callback, and its handler is
\* cleared once it got one
C3_AtMostOneCallback ==
    \A l \in Lookups :
        kind[l] = "remote" => (Calls(l) <= 1 /\ (Calls(l) = 1 => ~handler[l]))

\* a cancelled RemoteLookup for which a response is about to be delivered
C3_Witness ==
    \E l \in Lookups :
        /\ kind[l] = "remote" /\ cb[l].onCancelled = 1
        /\ pc = "deliver" /\ BufferedFor(l) # {}

\* C4: a lookup cancelled before its first execute() has got onCancelled
\* exactly once and neither onReceived nor onTimeout
C4_EarlyCancel ==
    \A l \in Lookups :
        hist[l].cancel = "early"
        => (cb[l].onCancelled = 1 /\ cb[l].onReceived = 0 /\ cb[l].onTimeout = 0)

\* C5: when the handler of a, inside onReceived during the deliver step,
\* cancels in-flight b, then b gets onCancelled once, loses its
\* subscriptions and moves to _ready, a has exactly its onReceived; and a
\* lookup that got onCancelled gets no further callback
C5_CancelInCallback ==
    [][/\ \A a, b \in Lookups :
            (a # b /\ pc = "deliver" /\ cb'[a].onReceived = cb[a].onReceived + 1
                /\ InQueue(lookups, b) /\ handler[b] /\ ~handler'[b])
            => /\ cb'[b] = [cb[b] EXCEPT !.onCancelled = 1]
               /\ cb'[a] = [NoCalls EXCEPT !.onReceived = 1]
               /\ subscriptions'[b] = {} /\ InQueue(ready', b)
               /\ ~crashed'
       /\ \A b \in Lookups :
            (kind[b] = "remote" /\ cb[b].onCancelled = 1)
            => (cb'[b] = cb[b] \/ life'[b] = "gone")]_vars

\* a got its response in this deliver step, b was cancelled after that in the
\* same step, and a response for b is still buffered
C5_Witness ==
    \E a, b \in Lookups :
        /\ a # b /\ pc = "deliver" /\ build = "unknown" /\ ~crashed
        /\ ready = <<a, b>>
        /\ payload[a] = "udp" /\ cb[a].onReceived = 1
        /\ cb[b].onCancelled = 1 /\ hist[b].cancel = "late"
        /\ BufferedFor(b) # {}

\* C6: the in-flight queue never holds more than capacity lookups
C6_Capacity == Len(lookups) <= capacity

\* C7: count stays within 0..attempts and no more than attempts datagrams
\* are sent for a lookup
C7_CountBounded ==
    \A l \in Lookups :
        count[l] >= 0 /\ count[l] <= attempts /\ Len(sent[l]) <= attempts

\* a lookup that timed out while waiting for TCP and was sent again
C7_Witness ==
    \E l \in Lookups :
        /\ connection[l] /\ InQueue(lookups, l)
        /\ count[l] = attempts /\ attempts > 1 /\ subscriptions[l] # {}

\* C8: the k-th send goes to nameserver k mod N, or (k + id) mod N with
\* rotation; and with attempts = 2 and two silent nameservers a lookup that
\* was started and not cancelled has sent two datagrams, one to each, once
\* nothing is pending any more
C8_Targets ==
    \A l \in Lookups :
        /\ \A k \in 1..Len(sent[l]) :
              sent[l][k] = (IF rotate THEN k - 1 + id[l] ELSE k - 1) % NNameservers
        /\ (attempts = 2 /\ NNameservers = 2 /\ pc = "idle" /\ armed = {} /\ ~crashed
               /\ life[l] = "live" /\ handler[l] /\ Len(sent[l]) >= 1)
           => (Len(sent[l]) = 2 /\ sent[l][1] # sent[l][2])

\* C9: a LocalLookup that was executed is in _ready and in no other queue,
\* and its result was delivered at most once
C9_LocalToReady ==
    \A l \in Lookups :
        (kind[l] = "local" /\ isready[l] /\ ~crashed)
        => /\ InQueue(ready, l)
           /\ ~InQueue(scheduled, l) /\ ~InQueue(lookups, l)
           /\ cb[l].onReceived <= 1

\* C10: a LocalLookup gets onCancelled only if no result was reported, and
\* no result after a cancel() before execute()
C10_LocalCancel ==
    \A l \in Lookups :
        kind[l] = "local"
        => /\ (cb[l].onCancelled >= 1 => cb[l].onReceived = 0)
           /\ (hist[l].cancel = "early" => cb[l].onReceived = 0)

C12_TcpFailure ==
    [][\A l \in Lookups : \A r \in Reacts(l), ub \in Outcomes :
          TcpFailed(l, r, ub)
          => IF handler[l]
             THEN cb'[l] = [NoCalls EXCEPT !.onReceived = 1] /\ payload'[l] = "truncated"
             ELSE cb' = cb]_vars

\* the response that a step of _ipv4.deliver / _ipv6.deliver hands out
Delivered == IF ipv4 # <<>> THEN Head(ipv4) ELSE Head(ipv6)

\* C13: a truncated response delivered to a subscribed lookup calls no
\* handler; the lookup gets a connection, loses its subscriptions and has
\* last = now; a response delivered to a lookup that has a connection
\* changes nothing of it and calls no handler
C13_TruncatedToTcp ==
    [][(pc = "deliver" /\ maxcalls' = maxcalls - 1)
          => LET l == Delivered.l IN
             /\ (Delivered.tc /\ life[l] = "live" /\ ~connection[l]
                    /\ Delivered.ns \in subscriptions[l])
                => /\ cb' = cb /\ handler'[l] = handler[l]
                   /\ connection'[l] /\ subscriptions'[l] = {} /\ last'[l] = now
             /\ connection[l]
                => /\ cb' = cb /\ handler'[l] = handler[l]
                   /\ connection'[l] /\ subscriptions'[l] = subscriptions[l]
                   /\ last'[l] = last[l] /\ quevars' = quevars]_vars

\* a lookup that waits for TCP has sent again, is subscribed again, and a
\* response to that datagram is about to be delivered
C13_Witness ==
    \E l \in Lookups :
        /\ pc = "deliver" /\ connection[l] /\ ~crashed
        /\ \E i \in BufferedFor(l) : (ipv4 \o ipv6)[i].ns \in subscriptions[l]

\* C14: once a handler has destructed the Core, expire() has returned: it is
\* in none of its steps any more
C14_WatcherStops == (~valid /\ ~crashed) => pc = "dead"

\* C15: as long as every done() was for a lookup in _lookups, the assert at
\* the end of expire() does not fail, and when expire() has returned and no
\* timer is armed, all three queues are empty
C15_AssertHolds ==
    build = "unknown"
    => /\ ~asserted
       /\ (pc = "idle" /\ armed = {})
          => (scheduled = <<>> /\ lookups = <<>> /\ ready = <<>>)

\* how often l is linked in q
Occurrences(q, l) == Cardinality({i \in 1..Len(q) : q[i] = l})

\* C16: every lookup is linked at most once, in at most one of the queues
C16_OneQueue ==
    \A l \in Lookups :
        Occurrences(scheduled, l) + Occurrences(lookups, l) + Occurrences(ready, l) <= 1

\* a RemoteLookup that was cancelled while it waited in _scheduled
C16_Witness ==
    \E l \in Lookups :
        /\ kind[l] = "remote" /\ hist[l].cancel = "early" /\ ~crashed
        /\ build # "unknown" /\ InQueue(ready, l)

\* C17: the in-flight queue is ordered by non-decreasing timestamp
C17_Ordered ==
    \A i, j \in 1..Len(lookups) : i < j => last[lookups[i]] <= last[lookups[j]]

\* C18: at most one timer is armed with the event loop, and _timer is that
\* timer
C18_OneTimer ==
    /\ Cardinality(armed) <= 1
    /\ \A t \in armed : t[1] = timer

\* C19: every lookup in _ready has had its handler called and cleared
C19_ReadyReported ==
    \A i \in 1..Len(ready) : ~handler[ready[i]] /\ Calls(ready[i]) = 1

\* C20: done(l), which every RemoteLookup calls in the step that clears its
\* handler, is called while l is in _lookups, and leaves l in _ready only
C20_DoneInFlight ==
    [][\A l \in Lookups :
          (kind[l] = "remote" /\ handler[l] /\ ~handler'[l] /\ life'[l] = "live")
          => /\ InQueue(lookups, l)
             /\ InQueue(ready', l) /\ ~InQueue(lookups', l) /\ ~InQueue(scheduled', l)]_vars

\* C21: the step that ends expire() arms one new timer, at delay 0 when
\* _ready is not empty, else at max(0, front.timestamp + timeout - now) when
\* _lookups is not empty, and arms no timer otherwise
C21_TimerAtEnd ==
    [][(pc = "start" /\ pc' = "idle")
       => IF ready' # <<>>
          THEN timer' # NoTimer /\ armed' = armed \cup {<<timer', now>>}
                  /\ <<timer', now>> \notin armed
          ELSE IF lookups' # <<>>
          THEN LET due == now + Max(0, last'[Head(lookups')] + Timeout - now) IN
               timer' # NoTimer /\ armed' = armed \cup {<<timer', due>>}
                  /\ <<timer', due>> \notin armed
          ELSE armed' = armed /\ timer' = timer]_vars

\* expire() has returned with nothing ready and a lookup in flight, and the
\* timer it armed is due when the front lookup times out
C21_Witness ==
    /\ pc = "idle" /\ ~crashed /\ ready = <<>> /\ lookups # <<>>
    /\ timer # NoTimer
    /\ <<timer, last[Head(lookups)] + Timeout>> \in armed
    /\ last[Head(lookups)] + Timeout > now

\* C22: in one call of expire() the responses delivered by the two udp
\* transports and the lookups released from _ready are at most 8 together:
\* maxcalls is what is left of the 8, a delivery needs and takes one of it,
\* it never goes below 0, and step 2 releases no more lookups than are left
C22_Budget ==
    [][/\ (pc' = "deliver" \/ pc' = "start") => (maxcalls' >= 0 /\ maxcalls' <= MaxCalls)
       /\ (pc = "deliver" /\ Buffered' # Buffered)
              => /\ maxcalls >= 1 /\ maxcalls' = maxcalls - 1
                 /\ Buffered' = Buffered - 1
                 /\ (Len(ipv6') # Len(ipv6) => ipv4 = <<>>)
       /\ (pc = "deliver" /\ pc' = "start")
              => /\ Len(ready') <= Len(ready)
                 /\ (MaxCalls - maxcalls) + (Len(ready) - Len(ready')) <= MaxCalls]_vars

\* the 8 calls were used up by deliveries of both transports: a response is
\* still buffered and the lookup in _ready was not released
C22_Witness ==
    /\ pc = "start" /\ ~crashed /\ maxcalls = 0
    /\ ready # <<>> /\ ipv6 # <<>> /\ ipv4 = <<>>
    /\ \E l \in Lookups : life[l] = "live" /\ cb[l].onReceived = 1 /\ id[l] = 0

\* C24: a (transport, nameserver) pair is registered with the transport for
\* a lookup exactly while it is in the _subscriptions of that lookup; a
\* RemoteLookup that went through cleanup() (its handler is cleared) holds
\* no subscription and no tcp connection; and nothing is registered for a
\* lookup that has been destructed
C24_Subscriptions ==
    /\ registered = {p \in Lookups \X Nameservers : p[2] \in subscriptions[p[1]]}
    /\ \A l \in Lookups :
          (kind[l] = "remote" /\ ~handler[l]) => (subscriptions[l] = {} /\ ~connection[l])
    /\ \A p \in registered : life[p[1]] = "live"

\* a lookup that was sent twice and subscribed to both nameservers got its
\* response and holds nothing any more, while the other lookup is still
\* subscribed
C24_Witness ==
    \E l, m \in Lookups :
        /\ life[l] = "live" /\ kind[l] = "remote" /\ ~handler[l]
        /\ count[l] = 2 /\ payload[l] = "udp"
        /\ subscriptions[l] = {} /\ ~connection[l]
        /\ \A n \in Nameservers : <<l, n>> \notin registered
        /\ m # l /\ life[m] = "live" /\ <<m, 0>> \in registered

\* a RemoteLookup all of whose sends failed so far and that has credits left
SendFailed(l) ==
    /\ life[l] = "live" /\ kind[l] = "remote" /\ handler[l] /\ ~connection[l]
    /\ count[l] > 0 /\ count[l] < attempts /\ subscriptions[l] = {}

\* C23: an execute() whose datagram send fails still counts the attempt
\* (count + 1, last = now), registers no subscription and leaves the lookup
\* in flight; the lookup then times out like a sent one and is retried while
\* credits remain: when expire() has returned it is in flight or waits in
\* _scheduled, and a timer is armed that runs expire() again
C23_SendFails ==
    [][\A l \in Lookups :
          /\ (kind[l] = "remote" /\ count'[l] = count[l] + 1 /\ registered' = registered)
                 => /\ last'[l] = now /\ subscriptions'[l] = subscriptions[l]
                    /\ InQueue(lookups', l)
          /\ (SendFailed(l)' /\ pc' = "idle" /\ ~crashed' /\ build' = "unknown")
                 => /\ InQueue(lookups', l) \/ InQueue(scheduled', l)
                    /\ armed' # {}]_vars

\* C25: a retry cancels no earlier request: while the handler stays set and
\* no tcp connection is made, no step takes a subscription away; and a
\* non-truncated response from the nameserver of an earlier attempt that is
\* delivered after the retry, or while the lookup waits in _scheduled for
\* the retry, is reported to the handler as onReceived
C25_LateResponse ==
    [][\A l \in Lookups :
          /\ (kind[l] = "remote" /\ handler[l] /\ handler'[l] /\ ~connection'[l])
                 => subscriptions[l] \subseteq subscriptions'[l]
          /\ (/\ pc = "deliver" /\ maxcalls' = maxcalls - 1
              /\ Delivered.l = l /\ ~Delivered.tc
              /\ life[l] = "live" /\ handler[l] /\ ~connection[l]
              /\ Delivered.ns \in subscriptions[l]
              /\ \/ InQueue(scheduled, l)
                 \/ Delivered.ns # sent[l][Len(sent[l])])
                 => /\ cb'[l].onReceived = 1 /\ payload'[l] = "udp"
                    /\ ~handler'[l]]_vars

\* the loop of step 3 is about to run its body and every lookup in
\* _scheduled is a LocalLookup that was executed: the body pops the front
\* one, its execute() returns false at once, its credits() are 1 and it is
\* pushed back, which leaves the Core as it was with the loop condition true
Spinning ==
    /\ pc = "start" /\ ~crashed /\ valid /\ StartGuard
    /\ \A i \in 1..Len(scheduled) :
          kind[scheduled[i]] = "local" /\ isready[scheduled[i]]
    /\ \A ok \in BOOLEAN, ub \in Outcomes, nullok \in BOOLEAN :
          Execute(Cur, Head(scheduled), ok, <<"none">>, ub, nullok) = Cur

\* C26: every call of expire() terminates: the loop of step 3 never gets
\* to a state that its body leaves unchanged with the loop condition true,
\* every iteration of it that executes a RemoteLookup takes that lookup off
\* _scheduled, and the lookups that step 4 pops leave _lookups
C26_Terminates ==
    [][/\ ~Spinning'
       /\ (pc = "start" /\ pc' = "start" /\ kind[Head(scheduled)] = "remote")
              => Len(scheduled') < Len(scheduled)
       /\ (pc = "start" /\ pc' = "idle")
              => /\ Len(lookups') <= Len(lookups)
                 /\ \A l \in Lookups : InQueue(lookups', l) => InQueue(lookups, l)]_vars

\* C27: execute() is never called on a lookup whose handler has been
\* cleared (it was cancelled or its result was reported): no step sends a
\* datagram for it, registers a subscription for it, counts an attempt,
\* stamps it or marks it executed
C27_NoExecuteAfterClear ==
    [][\A l \in Lookups :
          (life[l] = "live" /\ ~handler[l] /\ life'[l] = "live")
          => /\ sent'[l] = sent[l] /\ count'[l] = count[l] /\ last'[l] = last[l]
             /\ subscriptions'[l] = subscriptions[l]
             /\ \A n \in Nameservers : <<l, n>> \in registered' => <<l, n>> \in registered
             /\ isready'[l] = isready[l]]_vars

\* C28: when expire() returns no lookup in _lookups is stale: every one of
\* them, not only the front one, has timestamp > now - timeout
C28_NoneStale ==
    [][(pc = "start" /\ pc' = "idle" /\ ~crashed')
          => \A i \in 1..Len(lookups') : last'[lookups'[i]] > now - Timeout]_vars
====
